---- MODULE Spec2Model ----
(***************************************************************************)
(* Model of the pennies-tracker sync scripts: src/scrape.py (the scraper   *)
(* with the process-wide 45 s alarm and the "test entry") and src/test.py  *)
(* (the variant with the placeholder entry and the batch cap of 3).  Both  *)
(* work on the same store, data/videos.json, one run at a time.            *)
(*                                                                         *)
(* Python strings are modelled as tuples of tokens, so that concatenation  *)
(* is \o: "placeholder-" + strftime("%Y%m%d") is <<"placeholder-", day>>.  *)
(* None is the empty tuple <<>>, a value x that may be None is <<x>>.      *)
(*                                                                         *)
(* A run is a sequence of steps: main's statements between the points      *)
(* where it can be interrupted (an exception, the alarm).  save_data is    *)
(* two steps, the open that truncates the file and the dump that fills it. *)
(* The calls to yt-dlp and to the transcription service are inputs: every  *)
(* outcome the code distinguishes is drawn.  The cache of downloaded audio *)
(* files is not kept: download_audio gives a path or None.                 *)
(***************************************************************************)
EXTENDS Integers, Sequences, FiniteSets, TLC

\* ------------------------------------------------------------- bounds

\* Longest listing output (lines) the provider returns.
MaxListing == 4
\* The clock runs from 0 to MaxTime.
MaxTime == 1
\* Clock ticks per calendar day (the real day scaled down to the model's clock).
DayLen == 1
\* A run is started only on a store holding fewer than MaxStore records.
MaxStore == 2

\* -------------------------------------------------- program constants

CREATOR == "pinkpennies_"
\* videos[:3]
BatchCap == 3

None == <<>>
Some(x) == <<x>>

\* ------------------------------------------------------------- inputs

\* A line of yt-dlp's output, already split at "|": a line of one part holds
\* no "|".
LineSet == {<<"a", "Ta">>, <<"b", "Tb">>, <<"junk">>}

RECURSIVE SeqsUpTo(_, _)
SeqsUpTo(S, n) ==
    IF n = 0 THEN {<<>>}
    ELSE LET shorter == SeqsUpTo(S, n - 1)
         IN  shorter \cup {Append(s, x) : s \in {t \in shorter : Len(t) = n - 1}, x \in S}

Outputs == SeqsUpTo(LineSet, MaxListing)

\* The same with a third video, for the runs of SpecOrder.
WideLineSet == LineSet \cup {<<"c", "Tc">>}
WideOutputs == SeqsUpTo(WideLineSet, MaxListing)

\* What subprocess.run does for the listing command: it returns (with a return
\* code and one of the outputs O), raises TimeoutExpired, or raises another
\* exception (yt-dlp missing, ...).
ProviderResultsOver(O) ==
    {[how |-> "returned", rc |-> 0, out |-> o] : o \in O}
    \cup {[how |-> "returned", rc |-> 1, out |-> <<>>],
          [how |-> "timeout", rc |-> 0, out |-> <<>>],
          [how |-> "error", rc |-> 0, out |-> <<>>]}

ProviderResults == ProviderResultsOver(Outputs)

\* --------------------------------------------------------------- state

VARIABLES
    file,          \* data/videos.json
    now,           \* the clock
    prog,          \* the script of the current run: "scrape" or "test"
    pc,            \* where the run is
    data,          \* main's data
    existing_ids,  \* test.py main's existing_ids
    videos,        \* main's videos (the listing), bound or not
    idx,           \* the loop's position in videos[:3]
    alarm,         \* scrape.py: the SIGALRM of signal.alarm(45) is pending
    last,          \* what the loop did with the last candidate it took
    loaded,        \* history: the videos that load_existing_data returned
    prev,          \* history: the script and the listing of the previous run, when
                   \* it ended normally (kept until this run has its listing)
    repeat,        \* history: this run is the same script as the previous run, which
                   \* ended normally, and got the same listing
    sawCorrupt,    \* history: the file this run's load met did not parse
    ioError        \* history: a write of this run's save_data raised OSError

vars == <<file, now, prog, pc, data, existing_ids, videos, idx, alarm, last, loaded, prev, repeat, sawCorrupt, ioError>>

\* ----------------------------------------------------- pure functions

Min(a, b) == IF a <= b THEN a ELSE b

\* strftime("%Y%m%d") of the clock: the calendar day.
Date(t) == t \div DayLen

Ids(vs) == {vs[k].id : k \in 1..Len(vs)}

NoDuplicateIds(vs) == \A j, k \in 1..Len(vs) : vs[j].id = vs[k].id => j = k

\* list.insert(0, e)
InsertAtEnd(vs, e) == vs \o <<e>>
Insert0(vs, e) == <<e>> \o vs

\* One parsed line: id = parts[0], title = parts[1],
\* url = f"https://www.tiktok.com/@{CREATOR}/video/{video_id}".
ParseLine(parts) ==
    [id    |-> <<parts[1]>>,
     title |-> IF Len(parts) > 1 THEN <<parts[2]>> ELSE <<"Unknown">>,
     url   |-> <<"https://www.tiktok.com/@", CREATOR, "/video/", parts[1]>>]

\* The loop over result.stdout.strip().split("\n"): a line is taken when it is
\* not empty and holds a "|", that is, when it splits into two parts or more.
RECURSIVE ParseOutput(_)
ParseOutput(out) ==
    IF out = <<>> THEN <<>>
    ELSE LET line == Head(out)
         IN  (IF Len(line) >= 2 THEN <<ParseLine(line)>> ELSE <<>>)
             \o ParseOutput(Tail(out))

\* test.py get_video_urls: a non-zero return code, a timeout and any other
\* exception all give [].
GetVideoUrlsTest(r) ==
    IF r.how = "returned" /\ r.rc = 0 THEN ParseOutput(r.out) ELSE <<>>

\* scrape.py get_video_urls_alternative: the parsed output when the command
\* returned 0 with some output and some line parsed, [] otherwise.
GetVideoUrlsAlternative(r) ==
    IF r.how = "returned" /\ r.rc = 0 /\ r.out # <<>> THEN ParseOutput(r.out) ELSE <<>>

\* scrape.py get_video_urls: the alternative is tried on a non-zero return code
\* and on TimeoutExpired; any other exception gives [].
GetVideoUrlsScrape(r, alt) ==
    CASE r.how = "error" -> <<>>
      [] r.how = "timeout" -> GetVideoUrlsAlternative(alt)
      [] r.rc # 0 -> GetVideoUrlsAlternative(alt)
      [] OTHER -> ParseOutput(r.out)

\* What get_video_urls can return, over everything the listing command (and,
\* in scrape.py, the alternative command) can do.
ListingsTest == {GetVideoUrlsTest(r) : r \in ProviderResults}
ListingsTestWide == {GetVideoUrlsTest(r) : r \in ProviderResultsOver(WideOutputs)}
ListingsScrape ==
    UNION {{GetVideoUrlsScrape(r, alt) :
                alt \in IF r.how = "timeout" \/ r.rc # 0 THEN ProviderResults ELSE {r}} :
           r \in ProviderResults}

\* The record main builds for a processed candidate.
VideoEntry(v, t, transcript) ==
    [id |-> v.id, title |-> v.title, url |-> v.url,
     scraped_at |-> t, transcript |-> transcript]

\* test.py main: the record inserted when the listing is empty.
PlaceholderEntry(t) ==
    [id |-> <<"placeholder-", Date(t)>>,
     title |-> <<"Run attempted - TikTok may be blocking">>,
     url |-> <<"https://www.tiktok.com/@", CREATOR>>,
     scraped_at |-> t, transcript |-> None]

\* scrape.py main: the record inserted on every run.
TestEntry(t) ==
    [id |-> <<"test-", t>>,
     title |-> <<"Workflow test - ", t>>,
     url |-> <<"https://www.tiktok.com/@", CREATOR>>,
     scraped_at |-> t,
     transcript |-> Some("Test entry to prove GitHub Actions works.")]

\* transcribe_audio: None without an audio path or without OPENAI_API_KEY,
\* None when the call raises, the text otherwise.
TranscribeAudio(audio, key, callOk) ==
    IF ~audio \/ ~key THEN None
    ELSE IF callOk THEN Some("text") ELSE None

\* Whether transcribe_audio reaches the transcription service.
TranscriberInvoked(audio, key) == audio /\ key

\* ------------------------------------------------------------ the store

EmptyDoc == [creator |-> CREATOR, videos |-> <<>>, last_updated |-> None]

FileAbsent == [st |-> "absent", doc |-> EmptyDoc]
\* A file opened with "w" and not (yet) written to its end: it does not parse.
FilePartial == [st |-> "partial", doc |-> EmptyDoc]
FileOf(d) == [st |-> "ok", doc |-> d]

\* The file is there and is no JSON document.
Corrupt(f) == f.st = "partial"

\* load_existing_data: the parsed file, a fresh document when there is no
\* file; json.load raises on a file that does not parse.
LoadRaisesNever(f) == FALSE
LoadRaises(f) == Corrupt(f)
LoadExistingData(f) == IF f.st = "ok" THEN f.doc ELSE EmptyDoc

Unbound == [bound |-> FALSE, val |-> <<>>]
Bound(x) == [bound |-> TRUE, val |-> x]
UnboundSet == [bound |-> FALSE, val |-> {}]

NoItem == [taken |-> FALSE, id |-> <<"">>, audio |-> FALSE, invoked |-> FALSE]
NoPrev == [prog |-> "none", listing |-> <<>>]

Init ==
    /\ file = FileAbsent
    /\ now = 0
    /\ prog = "none"
    /\ pc = "idle"
    /\ data = EmptyDoc
    /\ existing_ids = UnboundSet
    /\ videos = Unbound
    /\ idx = 1
    /\ alarm = FALSE
    /\ last = NoItem
    /\ loaded = None
    /\ prev = NoPrev
    /\ repeat = FALSE
    /\ sawCorrupt = FALSE
    /\ ioError = FALSE

\* -------------------------------------------------------------- actions

Running == pc \notin {"idle", "done", "crashed"}

\* scrape.py main, lines 180-216: the statements inside try ... except Exception.
\* videos is assigned by the last call in the try block, so the run is inside
\* it until videos is bound.
InTry == prog = "scrape" /\ ~videos.bound

\* Where an exception raised in main takes the run: scrape.py's except clause
\* prints it and goes on at line 218; anywhere else it ends the process.
AfterException == IF InTry THEN "loop" ELSE "crashed"

\* for video in videos (scrape.py) / for video in videos[:3] (test.py)
Batch(p, vs) == IF p = "test" THEN SubSeq(vs, 1, Min(BatchCap, Len(vs))) ELSE vs

\* The script is started (python scrape.py / python test.py) at time t, not
\* before the previous run; scrape.py arms the alarm when it is imported. The
\* clock is read as of the start of the run: the model does not let a second or
\* a day end in the middle of a run.
StartRun(p, t) ==
    /\ ~Running
    /\ file.st = "ok" => Len(file.doc.videos) < MaxStore
    /\ t >= now
    /\ now' = t
    /\ prev' = IF pc = "done" /\ videos.bound
               THEN [prog |-> prog, listing |-> videos.val]
               ELSE NoPrev
    /\ prog' = p
    /\ pc' = "load"
    /\ alarm' = (p = "scrape")
    /\ data' = EmptyDoc
    /\ existing_ids' = UnboundSet
    /\ videos' = Unbound
    /\ idx' = 1
    /\ last' = NoItem
    /\ loaded' = None
    /\ repeat' = FALSE
    /\ sawCorrupt' = FALSE
    /\ ioError' = FALSE
    /\ UNCHANGED file

\* data = load_existing_data(); test.py then builds existing_ids, scrape.py
\* does not.
Load ==
    /\ pc = "load"
    /\ ~LoadRaises(file)
    /\ data' = LoadExistingData(file)
    /\ loaded' = Some(LoadExistingData(file).videos)
    /\ existing_ids' = IF prog = "test" THEN Bound(Ids(LoadExistingData(file).videos))
                       ELSE existing_ids
    /\ pc' = IF prog = "test" THEN "listing" ELSE "entry"
    /\ sawCorrupt' = Corrupt(file)
    /\ UNCHANGED <<file, now, prog, videos, idx, alarm, last, prev, repeat, ioError>>

\* json.load raises on a file that does not parse.
LoadFails ==
    /\ pc = "load"
    /\ LoadRaises(file)
    /\ pc' = AfterException
    /\ sawCorrupt' = Corrupt(file)
    /\ UNCHANGED <<file, now, prog, data, existing_ids, videos, idx, alarm, last, loaded, prev, repeat, ioError>>

\* scrape.py main, lines 189-197: the test entry.
AddTestEntry ==
    /\ pc = "entry"
    /\ data' = [data EXCEPT !.videos = Insert0(data.videos, TestEntry(now))]
    /\ pc' = "save_open"
    /\ UNCHANGED <<file, now, prog, existing_ids, videos, idx, alarm, last, loaded, prev, repeat, sawCorrupt, ioError>>

\* save_data up to open(OUTPUT_FILE, "w"), which truncates the file.
SaveOpen ==
    /\ pc = "save_open"
    /\ data' = [data EXCEPT !.last_updated = Some(now)]
    /\ file' = FilePartial
    /\ pc' = "save_write"
    /\ UNCHANGED <<now, prog, existing_ids, videos, idx, alarm, last, loaded, prev, repeat, sawCorrupt, ioError>>

\* json.dump writes the document to its end and the file is closed. scrape.py
\* goes on to the listing after its first save; a final save ends the run.
SaveWrite ==
    /\ pc = "save_write"
    /\ file' = FileOf(data)
    /\ pc' = IF InTry THEN "listing" ELSE "done"
    /\ UNCHANGED <<now, prog, data, existing_ids, videos, idx, alarm, last, loaded, prev, repeat, sawCorrupt, ioError>>

\* A write of json.dump raises OSError (disk full, ...).
SaveIOError ==
    /\ pc = "save_write"
    /\ pc' = AfterException
    /\ ioError' = TRUE
    /\ UNCHANGED <<file, now, prog, data, existing_ids, videos, idx, alarm, last, loaded, prev, repeat, sawCorrupt>>

\* SIGALRM is delivered while main runs outside get_video_urls: timeout_handler
\* raises TimeoutError there.
AlarmFires ==
    /\ Running
    /\ alarm
    /\ alarm' = FALSE
    /\ pc' = AfterException
    /\ UNCHANGED <<file, now, prog, data, existing_ids, videos, idx, last, loaded, prev, repeat, sawCorrupt, ioError>>

\* History: the listing vs is the previous run's, and the script is the same.
SameAsPrevious(vs) == prev.prog = prog /\ prev.listing = vs

\* test.py: videos = get_video_urls(), one of the listings of S.
ListingTestFrom(S) ==
    /\ pc = "listing"
    /\ prog = "test"
    /\ \E vs \in S :
          /\ videos' = Bound(vs)
          /\ pc' = IF vs = <<>> THEN "placeholder" ELSE "loop"
          /\ repeat' = SameAsPrevious(vs)
    /\ prev' = NoPrev
    /\ UNCHANGED <<file, now, prog, data, existing_ids, idx, alarm, last, loaded, sawCorrupt, ioError>>

ListingTest == ListingTestFrom(ListingsTest)

ListingTestWide == ListingTestFrom(ListingsTestWide)

\* scrape.py: videos = get_video_urls()
ListingScrape ==
    /\ pc = "listing"
    /\ prog = "scrape"
    /\ \E vs \in ListingsScrape :
          /\ videos' = Bound(vs)
          /\ repeat' = SameAsPrevious(vs)
    /\ prev' = NoPrev
    /\ pc' = "loop"
    /\ UNCHANGED <<file, now, prog, data, existing_ids, idx, alarm, last, loaded, sawCorrupt, ioError>>

\* scrape.py: SIGALRM is delivered inside get_video_urls (or inside
\* get_video_urls_alternative), whose except Exception clause returns [].
ListingAlarm ==
    /\ pc = "listing"
    /\ prog = "scrape"
    /\ alarm
    /\ alarm' = FALSE
    /\ videos' = Bound(<<>>)
    /\ repeat' = SameAsPrevious(<<>>)
    /\ prev' = NoPrev
    /\ pc' = "loop"
    /\ UNCHANGED <<file, now, prog, data, existing_ids, idx, last, loaded, sawCorrupt, ioError>>

\* test.py main, lines 123-131: the placeholder for an empty listing.
AddPlaceholder ==
    /\ pc = "placeholder"
    /\ data' = [data EXCEPT !.videos = Insert0(data.videos, PlaceholderEntry(now))]
    /\ pc' = "save_open"
    /\ UNCHANGED <<file, now, prog, existing_ids, videos, idx, alarm, last, loaded, prev, repeat, sawCorrupt, ioError>>

\* scrape.py line 220 with videos never assigned: UnboundLocalError.
LoopUnbound ==
    /\ pc = "loop"
    /\ ~videos.bound
    /\ pc' = "crashed"
    /\ UNCHANGED <<file, now, prog, data, existing_ids, videos, idx, alarm, last, loaded, prev, repeat, sawCorrupt, ioError>>

\* The loop has no candidate left: "Found n new videos", then save_data.
LoopEnd ==
    /\ pc = "loop"
    /\ videos.bound
    /\ idx > Len(Batch(prog, videos.val))
    /\ pc' = "save_open"
    /\ idx' = 1
    /\ last' = NoItem
    /\ UNCHANGED <<file, now, prog, data, existing_ids, videos, alarm, loaded, prev, repeat, sawCorrupt, ioError>>

\* scrape.py line 221: existing_ids is defined nowhere in scrape.py: NameError.
LoopNameError ==
    /\ pc = "loop"
    /\ videos.bound
    /\ idx <= Len(Batch(prog, videos.val))
    /\ ~existing_ids.bound
    /\ pc' = "crashed"
    /\ UNCHANGED <<file, now, prog, data, existing_ids, videos, idx, alarm, last, loaded, prev, repeat, sawCorrupt, ioError>>

\* if video["id"] in existing_ids: continue
LoopSkip ==
    /\ pc = "loop"
    /\ videos.bound
    /\ idx <= Len(Batch(prog, videos.val))
    /\ existing_ids.bound
    /\ Batch(prog, videos.val)[idx].id \in existing_ids.val
    /\ idx' = idx + 1
    /\ last' = NoItem
    /\ UNCHANGED <<file, now, prog, pc, data, existing_ids, videos, alarm, loaded, prev, repeat, sawCorrupt, ioError>>

\* The loop body for a candidate whose id is not in existing_ids:
\* download_audio gives a path (audio) or None, transcribe_audio the transcript,
\* and the record is inserted at the front. existing_ids is not touched.
LoopProcess ==
    /\ pc = "loop"
    /\ videos.bound
    /\ idx <= Len(Batch(prog, videos.val))
    /\ existing_ids.bound
    /\ Batch(prog, videos.val)[idx].id \notin existing_ids.val
    /\ \E audio \in BOOLEAN, key \in BOOLEAN, callOk \in BOOLEAN :
          LET v == Batch(prog, videos.val)[idx]
          IN  /\ data' = [data EXCEPT !.videos =
                            Insert0(data.videos,
                                    VideoEntry(v, now, TranscribeAudio(audio, key, callOk)))]
              /\ last' = [taken |-> TRUE, id |-> v.id, audio |-> audio,
                          invoked |-> TranscriberInvoked(audio, key)]
    /\ idx' = idx + 1
    /\ UNCHANGED <<file, now, prog, pc, existing_ids, videos, alarm, loaded, prev, repeat, sawCorrupt, ioError>>

Next ==
    \/ \E p \in {"scrape", "test"}, t \in 0..MaxTime : StartRun(p, t)
    \/ Load
    \/ LoadFails
    \/ AddTestEntry
    \/ SaveOpen
    \/ SaveWrite
    \/ SaveIOError
    \/ AlarmFires
    \/ ListingTest
    \/ ListingScrape
    \/ ListingAlarm
    \/ AddPlaceholder
    \/ LoopUnbound
    \/ LoopEnd
    \/ LoopNameError
    \/ LoopSkip
    \/ LoopProcess

Spec == Init /\ [][Next]_vars

\* One run of test.py, with listings over three videos, on a store that earlier
\* runs left: no file, a placeholder record, the record of video "a".
StoresOrder ==
    {FileAbsent,
     FileOf([EmptyDoc EXCEPT !.videos = <<PlaceholderEntry(0)>>, !.last_updated = Some(0)]),
     FileOf([EmptyDoc EXCEPT !.videos = <<VideoEntry(ParseLine(<<"a", "Ta">>), 0, None)>>,
                             !.last_updated = Some(0)])}

InitOrder ==
    /\ file \in StoresOrder
    /\ now = 0
    /\ prog = "none"
    /\ pc = "idle"
    /\ data = EmptyDoc
    /\ existing_ids = UnboundSet
    /\ videos = Unbound
    /\ idx = 1
    /\ alarm = FALSE
    /\ last = NoItem
    /\ loaded = None
    /\ prev = NoPrev
    /\ repeat = FALSE
    /\ sawCorrupt = FALSE
    /\ ioError = FALSE

StartOnlyRun(t) == pc = "idle" /\ StartRun("test", t)

NextOrder ==
    \/ \E t \in 0..MaxTime : StartOnlyRun(t)
    \/ Load
    \/ ListingTestWide
    \/ AddPlaceholder
    \/ LoopEnd
    \/ LoopSkip
    \/ LoopProcess
    \/ SaveOpen
    \/ SaveWrite
    \/ SaveIOError

SpecOrder == InitOrder /\ [][NextOrder]_vars

\* --------------------------------------------------------------- claims

\* The process has ended: normally ("done") or with a traceback ("crashed").
Ended == pc \in {"done", "crashed"}

\* C1: no two records of videos share an id, in memory and in the file, for
\* every listing the provider returns (an empty or failed listing on several
\* runs, the same id twice in one batch).
C1_UniqueIds ==
    /\ NoDuplicateIds(data.videos)
    /\ file.st = "ok" => NoDuplicateIds(file.doc.videos)

\* C2: a run that follows a normally ended run of the same script and gets the
\* same listing leaves no duplicate ids in the file and leaves the set of ids
\* as it found it.
C2_Idempotent ==
    (pc = "done" /\ repeat) =>
        /\ NoDuplicateIds(file.doc.videos)
        /\ Ids(file.doc.videos) = Ids(loaded[1])

\* C3: a run whose listing is empty (or failed) ends with exactly the videos it
\* loaded in the file; only last_updated changes.
C3_EmptyListingAddsNothing ==
    (pc = "done" /\ videos.val = <<>>) =>
        /\ file.doc.videos = loaded[1]
        /\ file.doc.creator = CREATOR

\* C4: wherever a run stops (an OSError during the save, the alarm firing
\* while the save is in progress), the file is a complete document, never a
\* truncated or partly written one.
C4_StoreNeverTruncated == Ended => file.st # "partial"

\* C5: once the state has loaded, a run ends abnormally only when the save
\* itself fails, whatever the listing and the per-item outcomes. Stated here
\* for the runs in which no SIGALRM is delivered.
C5_OnlySaveFailureIsFatal ==
    (pc = "crashed" /\ loaded # None /\ (prog = "scrape" => alarm)) => ioError

\* The listing vs holds n >= 1 candidates, n within the batch cap, with
\* pairwise distinct ids none of which is among the records P.
DistinctUnseen(vs, P) ==
    /\ vs # <<>>
    /\ Len(vs) <= BatchCap
    /\ \A j, k \in 1..Len(vs) : vs[j].id = vs[k].id => j = k
    /\ \A k \in 1..Len(vs) : vs[k].id \notin Ids(P)

\* C6: (test.py) for loaded records P and a listing [c1, ..., cn] of pairwise
\* distinct unseen candidates, n within the batch cap, the file after the run
\* holds the records of cn, ..., c1 followed by P, unchanged and in order.
C6_OrderPreserved ==
    (prog = "test" /\ pc = "done" /\ DistinctUnseen(videos.val, loaded[1])) =>
        LET n == Len(videos.val)
            P == loaded[1]
            after == file.doc.videos
        IN  /\ Len(after) = n + Len(P)
            /\ \A k \in 1..n :
                  /\ after[k].id = videos.val[n + 1 - k].id
                  /\ after[k].title = videos.val[n + 1 - k].title
                  /\ after[k].url = videos.val[n + 1 - k].url
            /\ SubSeq(after, n + 1, n + Len(P)) = P

\* A run of test.py has ended normally after as many distinct unseen
\* candidates as the batch cap allows, on a store that held a record.
C6_Witness ==
    /\ prog = "test"
    /\ pc = "done"
    /\ DistinctUnseen(videos.val, loaded[1])
    /\ Len(videos.val) = BatchCap
    /\ loaded[1] # <<>>

\* C7: (test.py) for an unseen candidate whose download gives nothing, the run
\* adds a record with the candidate's id, title and url and no transcript, the
\* transcription service is not called, and the id is known from then on.
C7_FetchFailureKeepsRecord ==
    (last.taken /\ ~last.audio) =>
        LET v == Batch(prog, videos.val)[idx - 1]
        IN  /\ data.videos # <<>>
            /\ Head(data.videos) = VideoEntry(v, now, None)
            /\ v.id = last.id
            /\ ~last.invoked
            /\ last.id \in existing_ids.val

\* C8: a run whose listing is empty (or failed) ends normally, with a save
\* that set last_updated to the time of the run. (A run whose save raised
\* OSError is left out: that failure is the store's, not the provider's.)
C8_EmptyListingRunSucceeds ==
    (Ended /\ videos.bound /\ videos.val = <<>> /\ ~ioError) =>
        /\ pc = "done"
        /\ file.st = "ok"
        /\ file.doc.last_updated = Some(now)

\* C9: when the file its load meets does not parse, a run changes nothing in
\* memory, never reaches a save (the file stays as it was) and ends abnormally.
C9_CorruptFileNotOverwritten ==
    sawCorrupt =>
        /\ file = FilePartial
        /\ data = EmptyDoc
        /\ pc \in {"loop", "crashed"}

\* A run that met a file that does not parse has ended.
C9_Witness == sawCorrupt /\ pc = "crashed"

\* C10: (test.py) a run whose listing holds a candidate that is not among the
\* loaded records processes at least one such candidate.
C10_CapAfterFilter ==
    (prog = "test" /\ pc = "done"
        /\ \E k \in 1..Len(videos.val) : videos.val[k].id \notin Ids(loaded[1])) =>
        \E j \in 1..Len(file.doc.videos) : file.doc.videos[j].id \notin Ids(loaded[1])

====
